---- MODULE Spec2Model ----
(***************************************************************************)
(* Model of the solana-mail on-chain program (src/src/processor.rs,        *)
(* state.rs, instruction.rs, error.rs).                                    *)
(*                                                                         *)
(* An account's data is a fixed-capacity byte buffer: bytes [0,4) hold a   *)
(* little-endian u32 DataLength, bytes [4,4+length) hold the Borsh         *)
(* encoding of a MailAccount {inbox: Vec<Mail>, sent: Vec<Mail>}.          *)
(* Bytes are the integers 0..255; sequences are 1-indexed, so the source's *)
(* byte i is element i+1 here.  TLC integers are 32-bit signed, so a u32   *)
(* is kept as two 16-bit halves [hi, lo].                                  *)
(*                                                                         *)
(* The texts of the welcome mail and of the account keys are abbreviated   *)
(* to one byte each; the codec below is generic in the field lengths.      *)
(***************************************************************************)
EXTENDS Integers, Sequences, FiniteSets, TLC

\* data, info: the accounts' buffers and handles; last: the latest call;
\* calls: the calls so far; temp: the latest run of a codec test of state.rs.
VARIABLES data, info, last, calls, temp

vars == <<data, info, last, calls, temp>>

\* ------------------------------------------------------------------ bounds
\* Capacities of the account buffers the allocator may hand out.
SmallCap == 3
MidCap == 40
MaxCap == 70
LargeCap == 92

Caps == {SmallCap, MidCap, MaxCap, LargeCap}

\* Number of calls of the program in one behaviour.
MaxCalls == 3

\* Number of calls through the entrypoint in one behaviour.
MaxEntered == 2

\* Size of the temp_slice of the codec tests ([0; 500] in the source) and
\* the longest list of mails they serialize.
TempCap == 200
MaxList == 2

\* ---------------------------------------------------------------- accounts
Accounts == {1, 2}

\* Pubkey strings (base58 text in the source, one byte here).
PROGRAM_ID == <<80>>
OTHER_PROGRAM == <<88>>

key(a) == IF a = 1 THEN <<65>> ELSE <<66>>

Min(a, b) == IF a < b THEN a ELSE b

\* ------------------------------------------------------------ u32 values
U32OfNat(n) == [hi |-> n \div 65536, lo |-> n % 65536]

U32Zero == U32OfNat(0)

\* The four bytes most significant first.
to_be_bytes(v) == <<v.hi \div 256, v.hi % 256, v.lo \div 256, v.lo % 256>>

to_le_bytes(v) == <<v.lo % 256, v.lo \div 256, v.hi % 256, v.hi \div 256>>

from_le_bytes(b) == [hi |-> b[3] + 256 * b[4], lo |-> b[1] + 256 * b[2]]

\* v as a TLC integer; only for values below 2^31.
U32Fits(v) == v.hi < 32768

U32Val(v) == v.hi * 65536 + v.lo

\* n < v for a natural n below 2^31
NatLtU32(n, v) == IF U32Fits(v) THEN n < U32Val(v) ELSE TRUE

\* u32 + u32 of line 98: the sum and whether it left the 32-bit range.
u32_add(v, n) ==
  LET lo == v.lo + n
      hi == v.hi + (lo \div 65536)
  IN [overflow |-> hi >= 65536,
      val |-> [hi |-> hi % 65536, lo |-> lo % 65536]]

\* ------------------------------------------------------------ state.rs
StrFields == <<"id", "from_address", "to_address", "subject", "body", "sent_date">>

Mail(id, from, to, subject, body, date) ==
  [id |-> id, from_address |-> from, to_address |-> to,
   subject |-> subject, body |-> body, sent_date |-> date]

MailAccount(inbox, sent) == [inbox |-> inbox, sent |-> sent]

\* ------------------------------------------------- BorshSerialize (derive)
\* The encoding as the list of write_all calls the derived impls issue.
ser_string(s) == <<to_le_bytes(U32OfNat(Len(s))), s>>

ser_mail(m) ==
  ser_string(m.id) \o ser_string(m.from_address) \o ser_string(m.to_address)
    \o ser_string(m.subject) \o ser_string(m.body) \o ser_string(m.sent_date)

RECURSIVE ser_mails(_)
ser_mails(ms) ==
  IF ms = <<>> THEN <<>> ELSE ser_mail(Head(ms)) \o ser_mails(Tail(ms))

ser_vec_mail(ms) == <<to_le_bytes(U32OfNat(Len(ms)))>> \o ser_mails(ms)

ser_mail_account(acc) == ser_vec_mail(acc.inbox) \o ser_vec_mail(acc.sent)

ser_data_length(v) == <<to_le_bytes(v)>>

\* get_instance_packed_len: the number of bytes a serialization writes.
RECURSIVE ChunksLen(_)
ChunksLen(cs) ==
  IF cs = <<>> THEN 0 ELSE Len(Head(cs)) + ChunksLen(Tail(cs))

get_instance_packed_len(chunks) == ChunksLen(chunks)

\* io::Write for &mut [u8]: write copies the amt bytes that fit, write_all
\* fails when that is less than the whole chunk (the copied part stays).
write_amt(w, chunk, amt) ==
  [buf |-> SubSeq(w.buf, 1, w.pos) \o SubSeq(chunk, 1, amt)
             \o SubSeq(w.buf, w.pos + amt + 1, Len(w.buf)),
   pos |-> w.pos + amt,
   ok |-> amt = Len(chunk)]

\* A write_all that also fails when the chunk fills the slice to its end.
write_all_short(w, chunk) ==
  [buf |-> write_amt(w, chunk, Min(Len(chunk), Len(w.buf) - w.pos)).buf,
   pos |-> write_amt(w, chunk, Min(Len(chunk), Len(w.buf) - w.pos)).pos,
   ok |-> Len(chunk) < Len(w.buf) - w.pos]

write_all(w, chunk) == write_amt(w, chunk, Min(Len(chunk), Len(w.buf) - w.pos))

RECURSIVE write_chunks(_, _)
write_chunks(w, chunks) ==
  IF chunks = <<>> \/ ~w.ok THEN w
  ELSE write_chunks(write_all(w, Head(chunks)), Tail(chunks))

\* the buffer d with its bytes [from, to) replaced by the writer's slice
splice(d, from, to, w) ==
  [ok |-> w.ok, data |-> SubSeq(d, 1, from) \o w.buf \o SubSeq(d, to + 1, Len(d))]

\* value.serialize(&mut &mut d[from..to]) for 0 <= from <= to <= Len(d)
serialize(d, from, to, chunks) ==
  splice(d, from, to,
         write_chunks([buf |-> SubSeq(d, from + 1, to), pos |-> 0, ok |-> TRUE], chunks))

\* ----------------------------------------------- BorshDeserialize (derive)
\* A parse result: ok, the value, and the position after it in the slice.
Fail == [ok |-> FALSE, val |-> <<>>, pos |-> 0]

Parsed(v, p) == [ok |-> TRUE, val |-> v, pos |-> p]

de_u32(s, p) ==
  IF Len(s) - p < 4 THEN Fail
  ELSE Parsed(from_le_bytes(SubSeq(s, p + 1, p + 4)), p + 4)

\* String::from_utf8 on the model's bytes: 0..127 are one-byte code points;
\* the only other byte the model draws is 255, which no UTF-8 text contains.
from_utf8_ok(bs) == \A i \in 1..Len(bs) : bs[i] < 128

\* Vec<u8> of the declared length l, then String::from_utf8
de_string_bytes(s, l) ==
  IF ~l.ok THEN Fail
  ELSE IF l.val = U32Zero THEN Parsed(<<>>, l.pos)
  ELSE IF NatLtU32(Len(s) - l.pos, l.val) THEN Fail
  ELSE IF from_utf8_ok(SubSeq(s, l.pos + 1, l.pos + U32Val(l.val)))
  THEN Parsed(SubSeq(s, l.pos + 1, l.pos + U32Val(l.val)), l.pos + U32Val(l.val))
  ELSE Fail

de_string(s, p) == de_string_bytes(s, de_u32(s, p))

\* the fields parsed so far (prev) followed by the next field f
de_field_push(prev, f) ==
  IF ~f.ok THEN Fail ELSE Parsed(Append(prev.val, f.val), f.pos)

de_field_next(s, prev) ==
  IF ~prev.ok THEN Fail ELSE de_field_push(prev, de_string(s, prev.pos))

\* the first k fields of a Mail, in declaration order
RECURSIVE de_fields(_, _, _)
de_fields(s, p, k) ==
  IF k = 0 THEN Parsed(<<>>, p) ELSE de_field_next(s, de_fields(s, p, k - 1))

\* The fields taken with subject and body exchanged.
mail_of_fields_swapped(r) ==
  IF ~r.ok THEN Fail
  ELSE Parsed(Mail(r.val[1], r.val[2], r.val[3], r.val[5], r.val[4], r.val[6]), r.pos)

mail_of_fields(r) ==
  IF ~r.ok THEN Fail
  ELSE Parsed(Mail(r.val[1], r.val[2], r.val[3], r.val[4], r.val[5], r.val[6]), r.pos)

de_mail(s, p) == mail_of_fields(de_fields(s, p, 6))

\* for _ in 0..len { result.push(T::deserialize(buf)?) }, acc pushed so far
RECURSIVE de_mails(_, _, _, _)
RECURSIVE de_mails_push(_, _, _, _)
de_mails(s, p, len, acc) ==
  IF ~NatLtU32(Len(acc), len) THEN Parsed(acc, p)
  ELSE de_mails_push(s, len, acc, de_mail(s, p))

de_mails_push(s, len, acc, m) ==
  IF ~m.ok THEN Fail ELSE de_mails(s, m.pos, len, Append(acc, m.val))

de_vec_elems(s, l) ==
  IF ~l.ok THEN Fail
  ELSE IF l.val = U32Zero THEN Parsed(<<>>, l.pos)
  ELSE de_mails(s, l.pos, l.val, <<>>)

de_vec_mail(s, p) == de_vec_elems(s, de_u32(s, p))

de_account_of(i, o) ==
  IF ~o.ok THEN Fail ELSE Parsed(MailAccount(i.val, o.val), o.pos)

de_account_sent(s, i) ==
  IF ~i.ok THEN Fail ELSE de_account_of(i, de_vec_mail(s, i.pos))

de_mail_account(s, p) == de_account_sent(s, de_vec_mail(s, p))

\* T::try_from_slice: deserialize, then fail unless every byte was read
all_bytes_read(s, r) == IF r.ok /\ r.pos = Len(s) THEN r ELSE Fail

MailAccount_try_from_slice(s) == all_bytes_read(s, de_mail_account(s, 0))

Mail_try_from_slice(s) == all_bytes_read(s, de_mail(s, 0))

DataLength_try_from_slice(s) == all_bytes_read(s, de_u32(s, 0))

\* ------------------------------------------------------------ processor.rs
\* The AccountInfo handles of the accounts, built once by the caller as in the
\* tests: info[a] holds is_writable and owner, data[a] the account's bytes.
AccountInfos == [is_writable : BOOLEAN, owner : {PROGRAM_ID, OTHER_PROGRAM}]

\* The mails the dispatcher may hand to process_send_mail.
MailH == Mail(<<>>, <<>>, <<>>, <<72>>, <<>>, <<>>)
MailJ == Mail(<<49>>, <<>>, <<>>, <<74, 74>>, <<76, 76, 76>>, <<50>>)

Mails == {MailH, MailJ}

welcome_mail(a) == Mail(<<48>>, PROGRAM_ID, key(a), <<87>>, <<84>>, <<57>>)

empty_mail_account == MailAccount(<<>>, <<>>)

\* The result of reading a buffer; read_end is the end of the last slice
\* taken from it.
ReadFailed(result, read_end) ==
  [result |-> result, val |-> empty_mail_account, read_end |-> read_end]

\* MailAccount::try_from_slice(&data[4..length])?
read_decoded(r, length) ==
  IF r.ok THEN [result |-> "Ok", val |-> r.val, read_end |-> length]
  ELSE ReadFailed("BorshIoError", length)

\* length = data_length.length + 4 (sum), then the slice [4..length]:
\* the addition panics under overflow checks and wraps otherwise, the slice
\* panics when length < 4 or length > capacity.
read_slice(d, overflow_checks, sum) ==
  IF sum.overflow /\ overflow_checks THEN ReadFailed("Panic", 4)
  ELSE IF NatLtU32(Len(d), sum.val) \/ ~NatLtU32(3, sum.val) THEN ReadFailed("Panic", 4)
  ELSE read_decoded(MailAccount_try_from_slice(SubSeq(d, 5, U32Val(sum.val))),
                    U32Val(sum.val))

\* A read with no case for a zero length: it decodes the empty slice.
read_length_strict(d, overflow_checks, data_length) ==
  read_slice(d, overflow_checks, u32_add(data_length, 4))

\* A read that takes no notice of the length: it decodes a MailAccount from
\* the start of data[4..] and lets the rest be.
read_length_unframed(d, overflow_checks, data_length) ==
  read_decoded(de_mail_account(SubSeq(d, 5, Len(d)), 0), 4)

\* if data_length.length > 0 { decode } else { empty MailAccount }
read_length(d, overflow_checks, data_length) ==
  IF data_length = U32Zero
  THEN [result |-> "Ok", val |-> empty_mail_account, read_end |-> 4]
  ELSE read_slice(d, overflow_checks, u32_add(data_length, 4))

\* DataLength::try_from_slice(&data[..4]) and, for a non-zero length,
\* MailAccount::try_from_slice(&data[4..length + 4]).  overflow_checks is the
\* build's setting for `length + 4`.
read_account(d, overflow_checks) ==
  IF Len(d) < 4 THEN ReadFailed("Panic", 0)
  ELSE read_length(d, overflow_checks, DataLength_try_from_slice(SubSeq(d, 1, 4)).val)

Written(w) ==
  [result |-> IF w.ok THEN "Ok" ELSE "BorshIoError", data |-> w.data]

\* A payload write that first clears everything after the prefix.
write_payload_cleared(w1, chunks) ==
  IF ~w1.ok THEN Written(w1)
  ELSE Written(serialize(SubSeq(w1.data, 1, 4) \o [i \in 1..(Len(w1.data) - 4) |-> 0],
                         4, Len(w1.data), chunks))

\* mail_account.serialize(&mut data[4..])? after the prefix write w1
write_payload(w1, chunks) ==
  IF ~w1.ok THEN Written(w1)
  ELSE Written(serialize(w1.data, 4, Len(w1.data), chunks))

\* A write that stores the payload but not its length.
write_framed_no_prefix(d, chunks) ==
  write_payload([ok |-> TRUE, data |-> d], chunks)

\* DataLength { length: packed_len }.serialize(&mut data[..4])?, then the payload
write_framed(d, chunks) ==
  write_payload(
    serialize(d, 0, 4, ser_data_length(U32OfNat(get_instance_packed_len(chunks)))),
    chunks)

\* lines 108-112 (and 56-62, 128-132): the length, then the payload
write_account(d, acc) ==
  IF Len(d) < 4 THEN [result |-> "Panic", data |-> d]
  ELSE write_framed(d, ser_mail_account(acc))

check_account(account) ==
  IF ~account.is_writable THEN "NotWritable"
  ELSE IF account.owner # PROGRAM_ID THEN "IncorrectProgramId"
  ELSE "Ok"

\* The outcome of a call: the buffers after it, the buffers between the
\* sender's and the receiver's step, the result, the step that ended it and
\* how far into its buffer each step's read went (0: the step did not run).
Outcome(d, mid, result, step, sread, rread) ==
  [data |-> d, mid |-> mid, result |-> result, step |-> step,
   sread |-> sread, rread |-> rread]

init_written(after, w) ==
  Outcome(after, after, w.result, IF w.result = "Ok" THEN "done" ELSE "write", 0, 0)

init_write(dat, a, w) == init_written([dat EXCEPT ![a] = w.data], w)

\* A seed that keeps what the buffer holds and pushes the welcome mail.
process_init_account_keep(dat, a, ainfo) ==
  IF check_account(ainfo) # "Ok"
  THEN Outcome(dat, dat, check_account(ainfo), "auth", 0, 0)
  ELSE init_write(dat, a,
         write_account(dat[a],
           [read_account(dat[a], TRUE).val EXCEPT !.inbox = Append(@, welcome_mail(a))]))

process_init_account(dat, a, ainfo) ==
  IF check_account(ainfo) # "Ok"
  THEN Outcome(dat, dat, check_account(ainfo), "auth", 0, 0)
  ELSE init_write(dat, a,
         write_account(dat[a], MailAccount(<<welcome_mail(a)>>, <<>>)))

StepRead(d, rd) ==
  [result |-> rd.result, data |-> d, step |-> "read", read_end |-> rd.read_end]

StepWritten(w, read_end) ==
  [result |-> w.result, data |-> w.data, step |-> "write", read_end |-> read_end]

\* A sender step that inserts the mail at the front of `sent`.
sender_push_front(d, mail, rd) ==
  IF rd.result # "Ok" THEN StepRead(d, rd)
  ELSE StepWritten(write_account(d, [rd.val EXCEPT !.sent = <<mail>> \o @]),
                   rd.read_end)

\* A sender step that starts from an empty account when the read fails.
sender_push_default(d, mail, rd) ==
  IF Len(d) < 4 THEN StepRead(d, rd)
  ELSE StepWritten(write_account(d, [rd.val EXCEPT !.sent = Append(@, mail)]),
                   rd.read_end)

\* lines 107-112: sender_data.sent.push(mail.clone()) and the write
sender_push(d, mail, rd) ==
  IF rd.result # "Ok" THEN StepRead(d, rd)
  ELSE StepWritten(write_account(d, [rd.val EXCEPT !.sent = Append(@, mail)]),
                   rd.read_end)

\* lines 94-112: the sender's buffer gets the mail pushed onto `sent`
sender_step(d, mail, overflow_checks) ==
  sender_push(d, mail, read_account(d, overflow_checks))

\* lines 126-132: receiver_data.inbox.push(mail.clone()) and the write
receiver_push(d, mail, rd) ==
  IF rd.result # "Ok" THEN StepRead(d, rd)
  ELSE StepWritten(write_account(d, [rd.val EXCEPT !.inbox = Append(@, mail)]),
                   rd.read_end)

\* lines 114-132: the receiver's buffer gets the mail pushed onto `inbox`
receiver_step(d, mail, overflow_checks) ==
  receiver_push(d, mail, read_account(d, overflow_checks))

send_done(mid, r, ss, rs) ==
  Outcome([mid EXCEPT ![r] = rs.data], mid, rs.result,
          IF rs.result = "Ok" THEN "done" ELSE "receiver_" \o rs.step,
          ss.read_end, rs.read_end)

send_receiver(mid, r, mail, overflow_checks, ss) ==
  IF ss.result # "Ok"
  THEN Outcome(mid, mid, ss.result, "sender_" \o ss.step, ss.read_end, 0)
  ELSE send_done(mid, r, ss, receiver_step(mid[r], mail, overflow_checks))

\* A send whose receiver step reads the receiver's buffer as it was before
\* the call.
send_sender_stale(dat, s, r, mail, overflow_checks, ss) ==
  IF ss.result # "Ok"
  THEN Outcome([dat EXCEPT ![s] = ss.data], [dat EXCEPT ![s] = ss.data],
               ss.result, "sender_" \o ss.step, ss.read_end, 0)
  ELSE send_done([dat EXCEPT ![s] = ss.data], r, ss,
                 receiver_step(dat[r], mail, overflow_checks))

send_sender(dat, s, r, mail, overflow_checks, ss) ==
  send_receiver([dat EXCEPT ![s] = ss.data], r, mail, overflow_checks, ss)

\* A send that checks the receiver only after the sender step has run.
process_send_mail_late(dat, s, r, sinfo, rinfo, mail, overflow_checks) ==
  IF check_account(sinfo) # "Ok"
  THEN Outcome(dat, dat, check_account(sinfo), "auth", 0, 0)
  ELSE IF check_account(rinfo) # "Ok"
  THEN Outcome([dat EXCEPT ![s] = sender_step(dat[s], mail, overflow_checks).data],
               dat, check_account(rinfo), "auth", 0, 0)
  ELSE send_sender(dat, s, r, mail, overflow_checks,
                   sender_step(dat[s], mail, overflow_checks))

process_send_mail(dat, s, r, sinfo, rinfo, mail, overflow_checks) ==
  IF check_account(sinfo) # "Ok"
  THEN Outcome(dat, dat, check_account(sinfo), "auth", 0, 0)
  ELSE IF check_account(rinfo) # "Ok"
  THEN Outcome(dat, dat, check_account(rinfo), "auth", 0, 0)
  ELSE send_sender(dat, s, r, mail, overflow_checks,
                   sender_step(dat[s], mail, overflow_checks))

\* ------------------------------------------------------------ the machine
\* `last` records the latest call: its arguments, the buffers before it
\* (pre), between its two steps (mid), its result, where it ended, and the
\* arguments and end of the call before it (prev).
NoMail == Mail(<<>>, <<>>, <<>>, <<>>, <<>>, <<>>)

Summary(c) ==
  [op |-> c.op, sender |-> c.sender, receiver |-> c.receiver, mail |-> c.mail,
   step |-> c.step]

NoSummary ==
  [op |-> "none", sender |-> 1, receiver |-> 1, mail |-> NoMail, step |-> "none"]

Call(op, s, r, mail, pre, out, prev) ==
  [op |-> op, sender |-> s, receiver |-> r, mail |-> mail, pre |-> pre,
   mid |-> out.mid, result |-> out.result, step |-> out.step,
   sread |-> out.sread, rread |-> out.rread, prev |-> prev]

ZeroFilled(c) == [i \in 1..c |-> 0]

NoCall(d) ==
  Call("none", 1, 1, NoMail, d, Outcome(d, d, "Ok", "none", 0, 0), NoSummary)

\* no codec test has run
NoTemp ==
  [test |-> "none", value |-> NoMail, slice |-> <<>>, serialized |-> FALSE,
   decoded |-> Fail]

GoodInfo == [is_writable |-> TRUE, owner |-> PROGRAM_ID]

\* An account as allocated: zero-filled data of some capacity with a handle
\* that passes the checks, or a handle that fails them (largest capacity).
Allocated ==
  {[data |-> ZeroFilled(c), info |-> GoodInfo] : c \in Caps}
    \cup {[data |-> ZeroFilled(MaxCap), info |-> i] : i \in AccountInfos \ {GoodInfo}}

Init ==
  /\ \E alloc \in [Accounts -> Allocated] :
       /\ data = [a \in Accounts |-> alloc[a].data]
       /\ info = [a \in Accounts |-> alloc[a].info]
  /\ last = NoCall(data)
  /\ calls = 0
  /\ temp = NoTemp

\* the call's outcome becomes the state
Return(op, s, r, mail, out) ==
  /\ data' = out.data
  /\ last' = Call(op, s, r, mail, data, out, Summary(last))
  /\ calls' = calls + 1
  /\ UNCHANGED <<info, temp>>

InitAccount ==
  /\ calls < MaxCalls
  /\ \E a \in Accounts :
       Return("InitAccount", a, a, NoMail, process_init_account(data, a, info[a]))

SendMail ==
  /\ calls < MaxCalls
  /\ \E s \in Accounts, r \in Accounts, mail \in Mails, overflow_checks \in BOOLEAN :
       Return("SendMail", s, r, mail,
              process_send_mail(data, s, r, info[s], info[r], mail, overflow_checks))

Next == InitAccount \/ SendMail

Spec == Init /\ [][Next]_vars

\* Buffers in any condition: the program reads whatever bytes the account
\* holds, so the read path is also exercised on buffers it did not write.
WithPrefix(d, b) == b \o SubSeq(d, 5, Len(d))

Poke(d, i, v) == [d EXCEPT ![i] = v]

\* a seeded buffer, and a seeded buffer with one sent mail
SeededBuffer(a) ==
  write_account(ZeroFilled(MaxCap), MailAccount(<<welcome_mail(a)>>, <<>>)).data

UsedBuffer(a) ==
  write_account(ZeroFilled(MaxCap), MailAccount(<<welcome_mail(a)>>, <<MailH>>)).data

AnyPrefixes ==
  {<<0, 0, 0, 0>>, <<255, 0, 0, 0>>, <<0, 1, 0, 0>>,
   <<252, 255, 255, 255>>, <<255, 255, 255, 255>>,
   to_le_bytes(U32OfNat(MaxCap - 3)), to_le_bytes(U32OfNat(MaxCap - 4)),
   to_le_bytes(U32OfNat(MaxCap - 8))}

\* byte positions of the inbox count, the first field's length, the first
\* field's text and the sent count of a seeded buffer
AnyPokes == {<<5, 2>>, <<5, 255>>, <<9, 255>>, <<13, 255>>, <<39, 0>>, <<39, 2>>}

AnyBuffers(a) ==
  {ZeroFilled(MaxCap), WithPrefix(ZeroFilled(MaxCap), <<8, 0, 0, 0>>),
   SeededBuffer(a), UsedBuffer(a), WithPrefix(SeededBuffer(a), <<0, 0, 0, 0>>)}
    \cup {WithPrefix(UsedBuffer(a), b) : b \in AnyPrefixes}
    \cup {Poke(UsedBuffer(a), pk[1], pk[2]) : pk \in AnyPokes}

InitAny ==
  /\ \E a \in Accounts : \E d \in AnyBuffers(a) :
       data = [b \in Accounts |-> IF b = a THEN d ELSE ZeroFilled(MaxCap)]
  /\ info = [a \in Accounts |-> GoodInfo]
  /\ last = NoCall(data)
  /\ calls = 0
  /\ temp = NoTemp

SpecAny == InitAny /\ [][Next]_vars

\* ------------------------------------------------------- state.rs tests
\* A test serializes a value into its own zero-filled temp_slice and
\* deserializes the first packed-length bytes; temp keeps what it saw.
Tested(test, value, w, decoded) ==
  [test |-> test, value |-> value, slice |-> w.data, serialized |-> w.ok,
   decoded |-> decoded]

\* The values the tests are run on.
TestMails ==
  Mails \cup {welcome_mail(1)}
    \cup {Mail(id, from, to, subject, body, date) :
            id \in {<<>>, <<49>>}, from \in {<<>>, <<65>>}, to \in {<<>>, <<66>>},
            subject \in {<<>>, <<72, 105>>}, body \in {<<>>, <<98, 111, 100>>},
            date \in {<<>>, <<57>>}}

ListMails == {MailH, MailJ, welcome_mail(1)}

TestLists == UNION {[1..n -> ListMails] : n \in 0..MaxList}

TestAccounts == {MailAccount(inbox, sent) : inbox \in TestLists, sent \in TestLists}

TestHalves == {0, 5, 255, 256, 65535}

TestLengths == {[hi |-> h, lo |-> l] : h \in TestHalves, l \in TestHalves}

tested_mail(m, w) ==
  Tested("test_mail", m, w,
         Mail_try_from_slice(SubSeq(w.data, 1, get_instance_packed_len(ser_mail(m)))))

test_mail ==
  /\ temp.test = "none"
  /\ \E m \in TestMails :
       temp' = tested_mail(m, serialize(ZeroFilled(TempCap), 0, TempCap, ser_mail(m)))
  /\ UNCHANGED <<data, info, last, calls>>

tested_mail_account(acc, w) ==
  Tested("test_mail_account", acc, w,
         MailAccount_try_from_slice(
           SubSeq(w.data, 1, get_instance_packed_len(ser_mail_account(acc)))))

test_mail_account ==
  /\ temp.test = "none"
  /\ \E acc \in TestAccounts :
       temp' = tested_mail_account(
                 acc, serialize(ZeroFilled(TempCap), 0, TempCap, ser_mail_account(acc)))
  /\ UNCHANGED <<data, info, last, calls>>

tested_data_length(v, w) ==
  Tested("test_data_length", v, w, DataLength_try_from_slice(SubSeq(w.data, 1, 4)))

test_data_length ==
  /\ temp.test = "none"
  /\ \E v \in TestLengths :
       temp' = tested_data_length(v, serialize(ZeroFilled(4), 0, 4, ser_data_length(v)))
  /\ UNCHANGED <<data, info, last, calls>>

\* The framed write of the processor followed by its framed read, on a
\* buffer of the tests' size (test_init_account reads back the same way).
tested_framed(acc, w) ==
  [test |-> "framed", value |-> acc, slice |-> w.data, serialized |-> w.result = "Ok",
   decoded |-> read_account(w.data, TRUE)]

test_framed ==
  /\ temp.test = "none"
  /\ \E acc \in TestAccounts :
       temp' = tested_framed(acc, write_account(ZeroFilled(TempCap), acc))
  /\ UNCHANGED <<data, info, last, calls>>

InitCodec ==
  /\ data = [a \in Accounts |-> ZeroFilled(MaxCap)]
  /\ info = [a \in Accounts |-> GoodInfo]
  /\ last = NoCall(data)
  /\ calls = 0
  /\ temp = NoTemp

NextCodec == test_mail \/ test_mail_account \/ test_data_length \/ test_framed

SpecCodec == InitCodec /\ [][NextCodec]_vars

\* ---------------------------------------------------------- instruction.rs

Unpacked(result, op, mail) == [result |-> result, op |-> op, mail |-> mail]

\* mail: Mail::try_from_slice(&rest)?
unpack_send(m) ==
  IF m.ok THEN Unpacked("Ok", "SendMail", m.val)
  ELSE Unpacked("BorshIoError", "none", NoMail)

\* An unpack that takes every tag other than 0 for SendMail.
unpack_any_tag(input) ==
  IF input = <<>> THEN Unpacked("InvalidInstruction", "none", NoMail)
  ELSE IF Head(input) = 0 THEN Unpacked("Ok", "InitAccount", NoMail)
  ELSE unpack_send(Mail_try_from_slice(Tail(input)))

\* MailInstruction::unpack
unpack(input) ==
  IF input = <<>> THEN Unpacked("InvalidInstruction", "none", NoMail)
  ELSE IF Head(input) = 0 THEN Unpacked("Ok", "InitAccount", NoMail)
  ELSE IF Head(input) = 1 THEN unpack_send(Mail_try_from_slice(Tail(input)))
  ELSE Unpacked("InvalidInstruction", "none", NoMail)

\* Instruction data as test_send_endpoint builds it: a vector of 1s of the
\* packed length plus one, the mail serialized into data[1..].
PackedInstruction(m) ==
  serialize([i \in 1..(1 + get_instance_packed_len(ser_mail(m))) |-> 1],
            1, 1 + get_instance_packed_len(ser_mail(m)), ser_mail(m)).data

\* The instruction data a client may send.
Instructions ==
  {<<>>, <<0>>, <<0, 9>>, <<2>>}
    \cup {PackedInstruction(m) : m \in Mails}
    \cup {PackedInstruction(MailH) \o <<0>>, SubSeq(PackedInstruction(MailJ), 1, 10)}

\* The account lists a client may pass.
AccountLists ==
  {<<>>} \cup {<<a>> : a \in Accounts} \cup {<<a, b>> : a \in Accounts, b \in Accounts}

\* Processor::process after unpack: accounts[0] and accounts[1] panic when
\* the list is too short (accounts[1] is taken after the sender's checks).
dispatch(dat, accts, inf, u, overflow_checks) ==
  IF u.result # "Ok" THEN Outcome(dat, dat, u.result, "unpack", 0, 0)
  ELSE IF accts = <<>> THEN Outcome(dat, dat, "Panic", "auth", 0, 0)
  ELSE IF u.op = "InitAccount" THEN process_init_account(dat, accts[1], inf[accts[1]])
  ELSE IF check_account(inf[accts[1]]) # "Ok"
  THEN Outcome(dat, dat, check_account(inf[accts[1]]), "auth", 0, 0)
  ELSE IF Len(accts) < 2 THEN Outcome(dat, dat, "Panic", "auth", 0, 0)
  ELSE process_send_mail(dat, accts[1], accts[2], inf[accts[1]], inf[accts[2]],
                         u.mail, overflow_checks)

process(dat, accts, inf, input, overflow_checks) ==
  dispatch(dat, accts, inf, unpack(input), overflow_checks)

\* the first and second account of a list (the first again when missing)
AccountAt(accts, i) ==
  IF Len(accts) >= i THEN accts[i] ELSE IF accts = <<>> THEN 1 ELSE accts[1]

\* The call through the entrypoint: `last` also keeps the instruction data,
\* what unpack made of it and the account list.
Entered(input, accts, u, out) ==
  /\ data' = out.data
  /\ last' = Call(u.op, AccountAt(accts, 1), AccountAt(accts, 2), u.mail, data, out,
                  Summary(last))
               @@ [input |-> input, unpacked |-> u, accounts |-> accts]
  /\ calls' = calls + 1
  /\ UNCHANGED <<info, temp>>

Process ==
  /\ calls < MaxEntered
  /\ \E input \in Instructions, accts \in AccountLists, overflow_checks \in BOOLEAN :
       Entered(input, accts, unpack(input),
               process(data, accts, info, input, overflow_checks))

NextProcess == Process

\* The first account as allocated, the others zero-filled with a handle
\* that passes.
InitProcess ==
  /\ \E alloc \in Allocated :
       /\ data = [b \in Accounts |-> IF b = 1 THEN alloc.data ELSE ZeroFilled(MaxCap)]
       /\ info = [b \in Accounts |-> IF b = 1 THEN alloc.info ELSE GoodInfo]
  /\ last = NoCall(data)
  /\ calls = 0
  /\ temp = NoTemp

SpecProcess == InitProcess /\ [][NextProcess]_vars

\* ------------------------------------------------------------ properties
\* The u32 at bytes [0,4) of a buffer of at least four bytes.
Prefix(d) == from_le_bytes(SubSeq(d, 1, 4))

HasPrefix(d) == Len(d) >= 4

\* What a reader of the buffer finds (the program's own read).
Stored(d) == read_account(d, TRUE)

SenderStepRan ==
  /\ last.op = "SendMail"
  /\ last.step \in {"sender_read", "sender_write", "receiver_read", "receiver_write", "done"}

SenderStepOk ==
  /\ last.op = "SendMail"
  /\ last.step \in {"receiver_read", "receiver_write", "done"}

ReceiverStepRan == SenderStepOk

ReceiverStepOk == last.op = "SendMail" /\ last.step = "done"

InitWriteFailed == last.op = "InitAccount" /\ last.step = "write"

InitOk == last.op = "InitAccount" /\ last.step = "done"

\* C1: when a Store write fails (process_init_account, or the sender or the
\* receiver step of process_send_mail), every byte of the written buffer,
\* the length prefix included, is as it was before the write.
C1_FailedWriteLeavesBuffer ==
  /\ InitWriteFailed => data[last.sender] = last.pre[last.sender]
  /\ (last.op = "SendMail" /\ last.step = "sender_write")
       => last.mid[last.sender] = last.pre[last.sender]
  /\ (last.op = "SendMail" /\ last.step = "receiver_write")
       => data[last.receiver] = last.mid[last.receiver]

\* C2: starting from zero-filled buffers, the length prefix of every buffer
\* is 0 or the exact byte length of a complete, decodable MailAccount
\* encoding stored at bytes [4, 4+prefix).
C2_PrefixFramesCollection ==
  \A a \in Accounts :
    HasPrefix(data[a]) =>
      \/ Prefix(data[a]) = U32Zero
      \/ /\ ~NatLtU32(Len(data[a]) - 4, Prefix(data[a]))
         /\ MailAccount_try_from_slice(
              SubSeq(data[a], 5, 4 + U32Val(Prefix(data[a])))).ok

\* C3: after every write, 4 + length prefix <= capacity: a prefix that
\* points past the end of the buffer is never stored.
C3_PrefixWithinCapacity ==
  \A a \in Accounts :
    HasPrefix(data[a]) => ~NatLtU32(Len(data[a]) - 4, Prefix(data[a]))

\* C4: after a successful process_init_account, whatever the buffer held
\* before, reading it yields inbox = [welcome mail] and sent = [].
C4_SeedThenRead ==
  InitOk =>
    /\ Stored(data[last.sender]).result = "Ok"
    /\ Stored(data[last.sender]).val = MailAccount(<<welcome_mail(last.sender)>>, <<>>)

\* C4 witness: a successful re-seed over a longer earlier payload, whose
\* stale bytes remain beyond the new payload.
C4_Witness ==
  /\ InitOk
  /\ NatLtU32(U32Val(Prefix(data[last.sender])), Prefix(last.pre[last.sender]))
  /\ \E i \in 1..Len(data[last.sender]) :
       /\ i > 4 + U32Val(Prefix(data[last.sender]))
       /\ data[last.sender][i] # 0

\* C5: a successful append makes the mutated list its previous contents
\* followed by the new record (sent for the sender step, inbox for the
\* receiver step); two successive successful sends of r1 then r2 from one
\* sender leave sent ending in <<r1, r2>>.
C5_AppendOrdering ==
  /\ SenderStepOk =>
       /\ Stored(last.pre[last.sender]).result = "Ok"
       /\ Stored(last.mid[last.sender]).result = "Ok"
       /\ Stored(last.mid[last.sender]).val.sent
            = Append(Stored(last.pre[last.sender]).val.sent, last.mail)
  /\ ReceiverStepOk =>
       /\ Stored(last.mid[last.receiver]).result = "Ok"
       /\ Stored(data[last.receiver]).result = "Ok"
       /\ Stored(data[last.receiver]).val.inbox
            = Append(Stored(last.mid[last.receiver]).val.inbox, last.mail)
  /\ (/\ SenderStepOk
      /\ last.prev.op = "SendMail"
      /\ last.prev.step \in {"receiver_read", "receiver_write", "done"}
      /\ last.prev.sender = last.sender)
       => LET sent == Stored(last.mid[last.sender]).val.sent
          IN /\ Len(sent) >= 2
             /\ SubSeq(sent, Len(sent) - 1, Len(sent)) = <<last.prev.mail, last.mail>>
  /\ (/\ ReceiverStepOk
      /\ last.prev.op = "SendMail"
      /\ last.prev.step = "done"
      /\ last.prev.receiver = last.receiver)
       => LET inbox == Stored(data[last.receiver]).val.inbox
          IN /\ Len(inbox) >= 2
             /\ SubSeq(inbox, Len(inbox) - 1, Len(inbox)) = <<last.prev.mail, last.mail>>

\* C5 witness: two successive successful sends of different mails between
\* the same two distinct accounts.
C5_Witness ==
  /\ ReceiverStepOk
  /\ last.prev.op = "SendMail" /\ last.prev.step = "done"
  /\ last.prev.sender = last.sender /\ last.prev.receiver = last.receiver
  /\ last.sender # last.receiver
  /\ last.prev.mail # last.mail
  /\ Stored(data[last.sender]).val.sent = <<last.prev.mail, last.mail>>
  /\ Stored(data[last.receiver]).val.inbox = <<last.prev.mail, last.mail>>

\* C6: the sender step leaves the decoded inbox of the sender's buffer
\* unchanged and the receiver step leaves the decoded sent list of the
\* receiver's buffer unchanged, for every prior content and every record.
C6_OtherListUnchanged ==
  /\ (SenderStepRan /\ Stored(last.pre[last.sender]).result = "Ok") =>
       /\ Stored(last.mid[last.sender]).result = "Ok"
       /\ Stored(last.mid[last.sender]).val.inbox
            = Stored(last.pre[last.sender]).val.inbox
  /\ (ReceiverStepRan /\ Stored(last.mid[last.receiver]).result = "Ok") =>
       /\ Stored(data[last.receiver]).result = "Ok"
       /\ Stored(data[last.receiver]).val.sent
            = Stored(last.mid[last.receiver]).val.sent

\* C8: when the receiver step fails after the sender step succeeded, the
\* sender's buffer holds the new record at the end of sent and the
\* receiver's buffer is byte for byte as before the call.
C8_ReceiverFailureLeavesReceiver ==
  (/\ last.op = "SendMail"
   /\ last.step \in {"receiver_read", "receiver_write"}
   /\ last.sender # last.receiver)
    => /\ Stored(data[last.sender]).result = "Ok"
       /\ Stored(data[last.sender]).val.sent
            = Append(Stored(last.pre[last.sender]).val.sent, last.mail)
       /\ data[last.receiver] = last.pre[last.receiver]

\* C10 as stated: an append never changes whether a buffer's prefix is 0
\* (Uninitialized) or greater than 0 (Seeded).
C10_AppendKeepsState ==
  last.op = "SendMail" =>
    \A a \in Accounts :
      HasPrefix(data[a]) =>
        ((Prefix(last.pre[a]) = U32Zero) <=> (Prefix(data[a]) = U32Zero))

\* C10 amended: no call returns a buffer with a non-zero prefix to prefix 0,
\* and an append that reaches its write leaves a non-zero prefix, so it
\* takes an Uninitialized buffer to Seeded just as the seed does.
C10_SeededStaysSeeded ==
  /\ \A a \in Accounts :
       (HasPrefix(data[a]) /\ Prefix(last.pre[a]) # U32Zero)
         => (Prefix(last.mid[a]) # U32Zero /\ Prefix(data[a]) # U32Zero)
  /\ (last.op = "SendMail" /\ last.step \in {"sender_write", "receiver_read", "receiver_write", "done"})
       => Prefix(last.mid[last.sender]) # U32Zero
  /\ (last.op = "SendMail" /\ last.step \in {"receiver_write", "done"})
       => Prefix(data[last.receiver]) # U32Zero
  /\ (last.op = "InitAccount" /\ last.step \in {"write", "done"} /\ HasPrefix(data[last.sender]))
       => Prefix(data[last.sender]) # U32Zero

\* C10 witness: a successful send between two buffers that both had prefix 0.
C10_Witness ==
  /\ ReceiverStepOk
  /\ last.sender # last.receiver
  /\ Prefix(last.pre[last.sender]) = U32Zero
  /\ Prefix(last.pre[last.receiver]) = U32Zero
  /\ Prefix(data[last.sender]) # U32Zero
  /\ Prefix(data[last.receiver]) # U32Zero

\* The existing framed payload of d cannot be read or decoded: its prefix L
\* is not 0 and 4 + L exceeds the capacity, or bytes [4, 4+L) are not a
\* MailAccount encoding of exactly L bytes.
Unreadable(d) ==
  /\ HasPrefix(d)
  /\ Prefix(d) # U32Zero
  /\ \/ NatLtU32(Len(d) - 4, Prefix(d))
     \/ ~MailAccount_try_from_slice(SubSeq(d, 5, 4 + U32Val(Prefix(d)))).ok

EnoughCapacity(d, mail) == Len(d) >= 4 + 8 + ChunksLen(ser_mail(mail))

\* C7: buffers whose first four bytes are zero count as empty collections,
\* whatever bytes follow: a send between two such distinct buffers with
\* enough capacity succeeds, the sender then decodes to sent = [m],
\* inbox = [] and the receiver to inbox = [m], sent = [].
C7_ZeroPrefixIsEmpty ==
  (/\ last.op = "SendMail"
   /\ last.sender # last.receiver
   /\ info[last.sender] = GoodInfo /\ info[last.receiver] = GoodInfo
   /\ HasPrefix(last.pre[last.sender]) /\ HasPrefix(last.pre[last.receiver])
   /\ Prefix(last.pre[last.sender]) = U32Zero
   /\ Prefix(last.pre[last.receiver]) = U32Zero
   /\ EnoughCapacity(last.pre[last.sender], last.mail)
   /\ EnoughCapacity(last.pre[last.receiver], last.mail))
    => /\ last.result = "Ok"
       /\ Stored(data[last.sender]).result = "Ok"
       /\ Stored(data[last.sender]).val = MailAccount(<<>>, <<last.mail>>)
       /\ Stored(data[last.receiver]).result = "Ok"
       /\ Stored(data[last.receiver]).val = MailAccount(<<last.mail>>, <<>>)

\* C7 witness: a successful send from a zero-prefix sender whose bytes after
\* the prefix were not all zero.
C7_Witness ==
  /\ ReceiverStepOk
  /\ last.sender # last.receiver
  /\ Prefix(last.pre[last.sender]) = U32Zero
  /\ Prefix(last.pre[last.receiver]) = U32Zero
  /\ \E i \in 5..Len(last.pre[last.sender]) : last.pre[last.sender][i] # 0
  /\ Stored(data[last.sender]).val = MailAccount(<<>>, <<last.mail>>)

\* C9: an append on a buffer whose framed payload cannot be read or decoded
\* fails in its read, takes no slice beyond the buffer's capacity and leaves
\* the buffer byte for byte unchanged.
C9_UnreadableLeavesBuffer ==
  /\ (SenderStepRan /\ Unreadable(last.pre[last.sender]))
       => /\ last.step = "sender_read"
          /\ last.result # "Ok"
          /\ data = last.pre
  /\ (ReceiverStepRan /\ Unreadable(last.mid[last.receiver]))
       => /\ last.step = "receiver_read"
          /\ last.result # "Ok"
          /\ data[last.receiver] = last.mid[last.receiver]
  /\ last.sread <= Len(last.pre[last.sender])
  /\ last.rread <= Len(last.mid[last.receiver])

\* C9 witness: the sender's read refused a prefix L with L + 4 beyond 2^32.
C9_Witness ==
  /\ last.op = "SendMail"
  /\ last.step = "sender_read"
  /\ u32_add(Prefix(last.pre[last.sender]), 4).overflow
  /\ data = last.pre

\* C9 witness of the other cases: a receiver whose payload lies within the
\* capacity but does not decode.
C9_WitnessUndecodable ==
  /\ last.op = "SendMail"
  /\ last.step = "receiver_read"
  /\ last.result = "BorshIoError"
  /\ ~NatLtU32(Len(last.mid[last.receiver]) - 4, Prefix(last.mid[last.receiver]))

\* the bytes a serialization produces, in order
RECURSIVE Bytes(_)
Bytes(chunks) == IF chunks = <<>> THEN <<>> ELSE Head(chunks) \o Bytes(Tail(chunks))

\* C12: for every Mail and every MailAccount, serializing into a buffer and
\* deserializing exactly the first packed-length bytes gives back the
\* original value: the same lists in the same order, the same six fields.
C12_RoundTrip ==
  temp.test \in {"test_mail", "test_mail_account"} =>
    /\ temp.serialized
    /\ temp.decoded.ok
    /\ temp.decoded.val = temp.value
    /\ temp.test = "test_mail" =>
         \A i \in 1..6 : temp.decoded.val[StrFields[i]] = temp.value[StrFields[i]]
    /\ temp.test = "test_mail_account" =>
         /\ Len(temp.decoded.val.inbox) = Len(temp.value.inbox)
         /\ Len(temp.decoded.val.sent) = Len(temp.value.sent)
         /\ \A k \in 1..Len(temp.value.inbox) :
              temp.decoded.val.inbox[k] = temp.value.inbox[k]
         /\ \A k \in 1..Len(temp.value.sent) :
              temp.decoded.val.sent[k] = temp.value.sent[k]

\* C12 witness: a collection of two different mails in inbox and one in
\* sent came back equal.
C12_Witness ==
  /\ temp.test = "test_mail_account"
  /\ temp.value = MailAccount(<<MailJ, MailH>>, <<welcome_mail(1)>>)
  /\ temp.decoded.ok
  /\ temp.decoded.val.inbox[1].body = <<76, 76, 76>>

\* C12 witness of the collection with both lists empty.
C12_WitnessEmpty ==
  /\ temp.test = "test_mail_account"
  /\ temp.value = empty_mail_account
  /\ temp.decoded.ok

\* C13: the prefix is the payload length in unsigned 32-bit little-endian
\* in bytes [0,4) (length 5 is 5,0,0,0) and decodes to the same number for
\* every 32-bit value; a framed payload written and read back gives the
\* written length and, in bytes [4,4+length), the written encoding.
C13_FramedReadBack ==
  /\ temp.test = "test_data_length" =>
       /\ temp.serialized
       /\ temp.slice[1] + 256 * temp.slice[2] = temp.value.lo
       /\ temp.slice[3] + 256 * temp.slice[4] = temp.value.hi
       /\ temp.value = U32OfNat(5) => temp.slice = <<5, 0, 0, 0>>
       /\ temp.decoded.ok /\ temp.decoded.val = temp.value
  /\ (temp.test = "framed" /\ temp.serialized) =>
       /\ Prefix(temp.slice) = U32OfNat(Len(Bytes(ser_mail_account(temp.value))))
       /\ SubSeq(temp.slice, 1, 4)
            = <<Len(Bytes(ser_mail_account(temp.value))) % 256,
                Len(Bytes(ser_mail_account(temp.value))) \div 256, 0, 0>>
       /\ SubSeq(temp.slice, 5, 4 + Len(Bytes(ser_mail_account(temp.value))))
            = Bytes(ser_mail_account(temp.value))
       /\ temp.decoded.result = "Ok"
       /\ temp.decoded.val = temp.value
       /\ temp.decoded.read_end = 4 + Len(Bytes(ser_mail_account(temp.value)))

\* C13 witness: a collection of three mails was framed and read back.
C13_Witness ==
  /\ temp.test = "framed"
  /\ temp.serialized
  /\ temp.value = MailAccount(<<welcome_mail(1), MailJ>>, <<MailH>>)
  /\ temp.decoded.result = "Ok"
  /\ temp.decoded.val.inbox[2] = MailJ

\* C13 witness of the length 5 of test_data_length.
C13_WitnessFive ==
  /\ temp.test = "test_data_length"
  /\ temp.value = U32OfNat(5)
  /\ temp.decoded.ok

\* C14: in one process_send_mail the sender's buffer is read, mutated and
\* written before the receiver's buffer is first read: when the receiver
\* step runs the sender's record is committed and the receiver's buffer is
\* the one that commit left; when the sender step fails, the receiver's
\* buffer is byte for byte as before the call.
C14_SenderBeforeReceiver ==
  /\ ReceiverStepRan =>
       /\ Stored(last.mid[last.sender]).result = "Ok"
       /\ Stored(last.mid[last.sender]).val.sent
            = Append(Stored(last.pre[last.sender]).val.sent, last.mail)
       /\ \A a \in Accounts : a # last.sender => last.mid[a] = last.pre[a]
       /\ \A a \in Accounts : a # last.receiver => data[a] = last.mid[a]
  /\ (last.op = "SendMail" /\ last.step \in {"sender_read", "sender_write"})
       => data[last.receiver] = last.pre[last.receiver]

\* The encoded length of a collection by the spec's count: 8 bytes of counts
\* and, for each record, 24 bytes of field prefixes plus its six fields.
RecordLen(m) ==
  24 + Len(m.id) + Len(m.from_address) + Len(m.to_address)
     + Len(m.subject) + Len(m.body) + Len(m.sent_date)

RECURSIVE RecordsLen(_)
RecordsLen(ms) == IF ms = <<>> THEN 0 ELSE RecordLen(Head(ms)) + RecordsLen(Tail(ms))

EncodedLen(acc) == 8 + RecordsLen(acc.inbox) + RecordsLen(acc.sent)

\* C15: a write on a readable buffer succeeds if and only if
\* 4 + n <= capacity, n the encoded length of the new collection; a write
\* that fills the buffer exactly succeeds, one byte more fails.
C15_WriteFitsIffCapacity ==
  /\ (last.op = "InitAccount" /\ last.step \in {"write", "done"}) =>
       (last.step = "done"
          <=> 4 + EncodedLen(MailAccount(<<welcome_mail(last.sender)>>, <<>>))
                <= Len(last.pre[last.sender]))
  /\ (SenderStepRan /\ last.step # "sender_read") =>
       (SenderStepOk
          <=> 4 + EncodedLen(Stored(last.pre[last.sender]).val) + RecordLen(last.mail)
                <= Len(last.pre[last.sender]))
  /\ (ReceiverStepRan /\ last.step # "receiver_read") =>
       (ReceiverStepOk
          <=> 4 + EncodedLen(Stored(last.mid[last.receiver]).val) + RecordLen(last.mail)
                <= Len(last.mid[last.receiver]))
  /\ InitOk => Prefix(data[last.sender]) = U32OfNat(EncodedLen(Stored(data[last.sender]).val))
  /\ SenderStepOk =>
       Prefix(last.mid[last.sender])
         = U32OfNat(EncodedLen(Stored(last.pre[last.sender]).val) + RecordLen(last.mail))
  /\ ReceiverStepOk =>
       Prefix(data[last.receiver])
         = U32OfNat(EncodedLen(Stored(last.mid[last.receiver]).val) + RecordLen(last.mail))

\* C15 witness: a successful write that fills the buffer to its last byte.
C15_Witness ==
  /\ ReceiverStepOk
  /\ 4 + U32Val(Prefix(data[last.receiver])) = Len(data[last.receiver])
  /\ Stored(data[last.receiver]).result = "Ok"

\* C15 witness of the write that needs one byte more than the capacity.
C15_WitnessOneMore ==
  /\ last.op = "SendMail"
  /\ last.step = "sender_write"
  /\ 4 + EncodedLen(Stored(last.pre[last.sender]).val) + RecordLen(last.mail)
       = Len(last.pre[last.sender]) + 1

\* after is before except within its first 4 + n bytes, n the prefix of after
OnlyFrameChanged(before, after) ==
  /\ Len(after) = Len(before)
  /\ \A i \in 1..Len(after) :
       i > 4 + U32Val(Prefix(after)) => after[i] = before[i]

\* C16: a successful write of a framed payload of length n changes only
\* bytes [0, 4+n): every byte at index 4+n or higher keeps its value (stale
\* bytes of a longer earlier payload stay), and no call changes a capacity.
C16_WriteTouchesFrameOnly ==
  /\ InitOk => OnlyFrameChanged(last.pre[last.sender], data[last.sender])
  /\ SenderStepOk => OnlyFrameChanged(last.pre[last.sender], last.mid[last.sender])
  /\ ReceiverStepOk => OnlyFrameChanged(last.mid[last.receiver], data[last.receiver])
  /\ \A a \in Accounts :
       Len(data[a]) = Len(last.pre[a]) /\ Len(last.mid[a]) = Len(last.pre[a])

\* C16 witness: a successful append whose payload is shorter than the one
\* the buffer held once; a stale byte beyond the new payload is still there.
C16_Witness ==
  /\ SenderStepOk
  /\ \E i \in 1..Len(last.mid[last.sender]) :
       /\ i > 4 + U32Val(Prefix(last.mid[last.sender]))
       /\ last.mid[last.sender][i] # 0
       /\ last.mid[last.sender][i] = last.pre[last.sender][i]

\* The prefix L of d lies within the capacity with bytes left beyond 4 + L.
HasTail(d) ==
  /\ HasPrefix(d)
  /\ NatLtU32(Len(d) - 4, Prefix(d)) = FALSE
  /\ 4 + U32Val(Prefix(d)) < Len(d)

WithTail(d, k, x) == SubSeq(d, 1, k) \o [i \in 1..(Len(d) - k) |-> x]

\* Other buffers of d's capacity that agree with d on bytes [0, 4 + L): the
\* bytes beyond all replaced, or only the first or the last of them.
SameFrame(d) ==
  IF ~HasTail(d) THEN {}
  ELSE ({WithTail(d, 4 + U32Val(Prefix(d)), x) : x \in {0, 255}}
          \cup {[d EXCEPT ![4 + U32Val(Prefix(d)) + 1] = 1], [d EXCEPT ![Len(d)] = 255]})
         \ {d}

\* bytes [0, 4 + L') of a buffer just written, as far as the capacity goes
WrittenRegion(d) == SubSeq(d, 1, Min(Len(d), 4 + U32Val(Prefix(d))))

\* a step run on another buffer came out as the recorded one did
SameOutcome(o, result, step, after) ==
  /\ o.result = result
  /\ o.step = step
  /\ o.step = "write" => WrittenRegion(o.data) = WrittenRegion(after)

\* C17: the outcome of an append depends only on bytes [0, 4 + L) of the
\* buffer, L its length prefix: on every buffer of the same capacity that
\* agrees on those bytes, the same record gives the same success or failure
\* and the same bytes in the written region [0, 4 + L').  (With L within the
\* capacity L + 4 does not overflow, so the build's overflow checks play no
\* part in the runs compared.)
C17_OutcomeByFrameOnly ==
  /\ SenderStepRan =>
       \A v \in SameFrame(last.pre[last.sender]) :
         SameOutcome(sender_step(v, last.mail, TRUE),
                     IF SenderStepOk THEN "Ok" ELSE last.result,
                     IF last.step = "sender_read" THEN "read" ELSE "write",
                     last.mid[last.sender])
  /\ ReceiverStepRan =>
       \A v \in SameFrame(last.mid[last.receiver]) :
         SameOutcome(receiver_step(v, last.mail, TRUE),
                     last.result,
                     IF last.step = "receiver_read" THEN "read" ELSE "write",
                     data[last.receiver])

\* C17 witness: a successful send from a buffer with a non-zero prefix and
\* bytes other than zero beyond its payload.
C17_Witness ==
  /\ ReceiverStepOk
  /\ last.sender # last.receiver
  /\ Prefix(last.pre[last.sender]) # U32Zero
  /\ HasTail(last.pre[last.sender])
  /\ \E i \in 1..Len(last.pre[last.sender]) :
       /\ i > 4 + U32Val(Prefix(last.pre[last.sender]))
       /\ last.pre[last.sender][i] # 0

\* the error the checks of one account give by the claim's words
CheckFails(account) ==
  IF ~account.is_writable THEN "NotWritable"
  ELSE IF account.owner # PROGRAM_ID THEN "IncorrectProgramId"
  ELSE "none"

\* the call touched no buffer: nothing read, nothing written
NoBufferAccess ==
  /\ last.step = "auth"
  /\ data = last.pre /\ last.mid = last.pre
  /\ last.sread = 0 /\ last.rread = 0

\* C18: the authorization checks precede every buffer access:
\* process_init_account fails with NotWritable for an account that is not
\* writable and with IncorrectProgramId for one the program does not own;
\* process_send_mail checks the sender and then the receiver the same way;
\* whenever a check fails all buffers are byte for byte unchanged.
C18_ChecksBeforeBuffers ==
  /\ last.op = "InitAccount" =>
       /\ CheckFails(info[last.sender]) # "none" =>
            (last.result = CheckFails(info[last.sender]) /\ NoBufferAccess)
       /\ CheckFails(info[last.sender]) = "none" => last.step # "auth"
  /\ last.op = "SendMail" =>
       /\ CheckFails(info[last.sender]) # "none" =>
            (last.result = CheckFails(info[last.sender]) /\ NoBufferAccess)
       /\ (CheckFails(info[last.sender]) = "none"
             /\ CheckFails(info[last.receiver]) # "none") =>
            (last.result = CheckFails(info[last.receiver]) /\ NoBufferAccess)
       /\ (CheckFails(info[last.sender]) = "none"
             /\ CheckFails(info[last.receiver]) = "none") => last.step # "auth"

\* C18 witness: a send refused for its receiver although the sender passed
\* its checks and had room for the mail.
C18_Witness ==
  /\ last.op = "SendMail"
  /\ info[last.sender] = GoodInfo
  /\ info[last.receiver].is_writable /\ info[last.receiver].owner = OTHER_PROGRAM
  /\ last.result = "IncorrectProgramId"
  /\ EnoughCapacity(last.pre[last.sender], last.mail)
  /\ data = last.pre

\* C19: a self-send (sender and receiver the same buffer) on a buffer with
\* room for two more copies of the record succeeds; the buffer then decodes
\* to the prior collection with the record appended once to sent and once
\* to inbox, its prefix is the length of that encoding, and the receiver
\* step has read what the sender step committed.
C19_SelfSend ==
  (/\ last.op = "SendMail"
   /\ last.sender = last.receiver
   /\ info[last.sender] = GoodInfo
   /\ Stored(last.pre[last.sender]).result = "Ok"
   /\ 4 + EncodedLen(Stored(last.pre[last.sender]).val) + 2 * RecordLen(last.mail)
        <= Len(last.pre[last.sender]))
    => /\ last.result = "Ok"
       /\ last.step = "done"
       /\ Stored(last.mid[last.sender]).val
            = [Stored(last.pre[last.sender]).val EXCEPT !.sent = Append(@, last.mail)]
       /\ Stored(data[last.sender]).result = "Ok"
       /\ Stored(data[last.sender]).val
            = MailAccount(Append(Stored(last.pre[last.sender]).val.inbox, last.mail),
                          Append(Stored(last.pre[last.sender]).val.sent, last.mail))
       /\ Prefix(data[last.sender])
            = U32OfNat(Len(Bytes(ser_mail_account(Stored(data[last.sender]).val))))
       /\ \A a \in Accounts : a # last.sender => data[a] = last.pre[a]

\* C19 witness: a self-send on a buffer that held the welcome mail; the
\* result holds the welcome mail and the record in inbox, the record in sent.
C19_Witness ==
  /\ last.op = "SendMail"
  /\ last.sender = last.receiver
  /\ last.step = "done"
  /\ Stored(last.pre[last.sender]).val = MailAccount(<<welcome_mail(last.sender)>>, <<>>)
  /\ Stored(data[last.sender]).val
       = MailAccount(<<welcome_mail(last.sender), last.mail>>, <<last.mail>>)

EnteredCall == last.op # "none" \/ last.step # "none"

\* C11: unpack goes by the first byte: tag 0 is InitAccount, tag 1 followed
\* by exactly the encoding of a Mail m is SendMail with that m, empty input
\* and every other tag are InvalidInstruction; when unpack fails, process
\* returns its error and no account buffer is modified.
C11_UnpackByTag ==
  EnteredCall =>
    /\ last.input = <<>> =>
         (last.result = "InvalidInstruction" /\ last.step = "unpack")
    /\ (last.input # <<>> /\ Head(last.input) = 0) =>
         (last.unpacked.result = "Ok" /\ last.unpacked.op = "InitAccount")
    /\ \A m \in Mails :
         last.input = <<1>> \o SubSeq(PackedInstruction(m), 2, Len(PackedInstruction(m)))
           => /\ last.unpacked.result = "Ok"
              /\ last.unpacked.op = "SendMail"
              /\ \A i \in 1..6 : last.unpacked.mail[StrFields[i]] = m[StrFields[i]]
              /\ last.mail = m
    /\ (last.input # <<>> /\ Head(last.input) \notin {0, 1}) =>
         (last.result = "InvalidInstruction" /\ last.step = "unpack")
    /\ last.unpacked.result # "Ok" =>
         (last.result = last.unpacked.result /\ data = last.pre)

\* C11 witness: the data of test_send_endpoint unpacked to SendMail and the
\* mail reached both buffers.
C11_Witness ==
  /\ EnteredCall
  /\ last.input = PackedInstruction(MailJ)
  /\ last.unpacked.op = "SendMail"
  /\ last.step = "done"
  /\ last.sender # last.receiver
  /\ Stored(data[last.receiver]).val.inbox = <<MailJ>>

\* C11 witness of a failed unpack on buffers that already hold mail.
C11_WitnessInvalid ==
  /\ EnteredCall
  /\ last.input # <<>> /\ Head(last.input) = 2
  /\ last.result = "InvalidInstruction"
  /\ \E a \in Accounts : HasPrefix(data[a]) /\ Prefix(data[a]) # U32Zero

====
